---- MODULE Spec2Model ----
(***************************************************************************)
(* Model of the segment-timeline pipeline of the voice translator:          *)
(* ProcessingThread.run (src/src/ui/main_window.py) and the stage methods   *)
(* it drives, TranslationProcessor.translate_segments /                     *)
(* translate_with_context, TTSProcessor.synthesize_segments /               *)
(* combine_segments.                                                        *)
(*                                                                          *)
(* Texts are sequences of characters.  Times are rationals with             *)
(* denominator TicksPerSecond, written as a number of ticks.  An exception  *)
(* in flight is the position pc = "raise"; the handler of run() catches it. *)
(***************************************************************************)
EXTENDS Integers, Sequences, FiniteSets, TLC

\* ------------------------------------------------------------------ bounds
MaxSegs == 2        \* longest segment list
MaxTick == 4        \* latest segment end, in ticks
MaxClip == 3        \* longest synthesized clip, in samples at its own rate
sample_rate == 2    \* samples per second of the composed buffer (scaled)
MaxSamples == 6     \* longest composed audio handed to the duration matching
MaxPasses == 2      \* applications of the duration matching by a direct caller
MaxContext == 4     \* longest segment list handed to translate_with_context alone

TicksPerSecond == 2 * sample_rate

\* ------------------------------------------------------------------- texts
RECURSIVE lstrip(_)
lstrip(t) == IF t # <<>> /\ Head(t) = " " THEN lstrip(Tail(t)) ELSE t

RECURSIVE rstrip(_)
rstrip(t) == IF t # <<>> /\ t[Len(t)] = " " THEN rstrip(SubSeq(t, 1, Len(t) - 1)) ELSE t

strip(t) == rstrip(lstrip(t))

\* Python's "not text or not text.strip()"
is_blank(text) == text = <<>> \/ strip(text) = <<>>

\* " ".join(texts)
RECURSIVE join(_)
join(texts) ==
    IF texts = <<>> THEN <<>>
    ELSE IF Len(texts) = 1 THEN texts[1]
    ELSE texts[1] \o <<" ">> \o join(Tail(texts))

max(a, b) == IF a > b THEN a ELSE b
min(a, b) == IF a < b THEN a ELSE b

None == <<>>

\* ------------------------------------------------------- the external models
\* What the translation pipeline answers for a text when it does not fail.
translator(text) == [k \in 1..Len(text) |-> IF text[k] = "a" THEN "A" ELSE text[k]]

\* ----------------------------------------------------- TranslationProcessor
\* translate_text with the failure swallowed: "" is returned instead of raising
translate_text_swallow(text, ok) ==
    IF is_blank(text)
    THEN [called |-> FALSE, raised |-> FALSE, value |-> <<>>]
    ELSE IF ok
    THEN [called |-> TRUE, raised |-> FALSE, value |-> [k \in 1..Len(text) |->
                                     IF text[k] = "a" THEN "A" ELSE text[k]]]
    ELSE [called |-> TRUE, raised |-> FALSE, value |-> <<>>]

\* translate_text: ok is the outcome of the pipeline call, should one be made.
\* called: the pipeline was invoked; raised: the call's exception propagates.
translate_text(text, ok) ==
    IF is_blank(text)
    THEN [called |-> FALSE, raised |-> FALSE, value |-> <<>>]
    ELSE IF ok
    THEN [called |-> TRUE, raised |-> FALSE, value |-> translator(text)]
    ELSE [called |-> TRUE, raised |-> TRUE, value |-> <<>>]

\* with_translation that rebases the segment to time 0
with_translation_rebased(segment, o, t) ==
    [original_text |-> o, translated_text |-> t, start |-> 0,
     end |-> segment.end - segment.start] @@ segment

\* {**segment, "original_text": o, "translated_text": t}
with_translation(segment, o, t) ==
    [original_text |-> o, translated_text |-> t] @@ segment

\* the except branch leaving the translation empty
translation_fallback_empty(segment) ==
    [original_text |-> segment.text, translated_text |-> <<>>] @@ segment

\* the except branch of both loops
translation_fallback(segment) ==
    with_translation(segment, segment.text, segment.text)

\* a call of the external model: the text passed and whether it succeeded
call(text, ok) == [text |-> text, ok |-> ok]

\* translate_segments_body whose except branch appends nothing
translate_segments_body_drop(segment, ok) ==
    IF is_blank(segment.text)
    THEN [append |-> <<[original_text |-> segment.text, translated_text |-> <<>>]
                       @@ segment>>,
          calls |-> <<>>]
    ELSE IF ~ok
    THEN [append |-> <<>>, calls |-> <<[text |-> segment.text, ok |-> ok]>>]
    ELSE [append |-> <<[original_text |-> segment.text,
                        translated_text |-> [k \in 1..Len(segment.text) |->
                            IF segment.text[k] = "a" THEN "A" ELSE segment.text[k]]]
                       @@ segment>>,
          calls |-> <<[text |-> segment.text, ok |-> ok]>>]

\* One iteration of the loop of translate_segments: what it appends to
\* translated_segments and the pipeline calls it makes.
translate_segments_body(segment, ok) ==
    LET original_text == segment.text
        r == translate_text(original_text, ok)
    IN  IF is_blank(original_text)
        THEN [append |-> <<with_translation(segment, original_text, <<>>)>>,
              calls |-> <<>>]
        ELSE IF r.raised
        THEN [append |-> <<translation_fallback(segment)>>,
              calls |-> <<call(original_text, ok)>>]
        ELSE [append |-> <<with_translation(segment, original_text, r.value)>>,
              calls |-> <<call(original_text, ok)>>]

context_window == 2

\* the window reaching back only: segments[start_idx:i + 1]
context_texts_trailing(segments, i) ==
    LET start_idx == max(0, i - context_window)
        end_idx == min(Len(segments), i + 1)
    IN  [k \in 1..(end_idx - start_idx) |-> segments[start_idx + k].text]

\* segments[start_idx:end_idx] of translate_with_context, 0-based i
context_texts(segments, i) ==
    LET start_idx == max(0, i - context_window)
        end_idx == min(Len(segments), i + context_window + 1)
    IN  [k \in 1..(end_idx - start_idx) |-> segments[start_idx + k].text]

\* the iteration keeping the translation of the context for the segment
translate_with_context_body_from_context(segments, i, ok1, ok2) ==
    LET segment == segments[i + 1]
        context_text == join(context_texts(segments, i))
        rc == translate_text(context_text, ok1)
        original_text == segment.text
        r == translate_text(original_text, ok2)
        ctx_call == IF rc.called THEN <<call(context_text, ok1)>> ELSE <<>>
        own_call == IF r.called THEN <<call(original_text, ok2)>> ELSE <<>>
    IN  IF rc.raised
        THEN [append |-> <<translation_fallback(segment)>>, calls |-> ctx_call]
        ELSE IF r.raised
        THEN [append |-> <<translation_fallback(segment)>>,
              calls |-> ctx_call \o own_call]
        ELSE [append |-> <<with_translation(segment, original_text, rc.value)>>,
              calls |-> ctx_call \o own_call]

\* One iteration of the loop of translate_with_context, 0-based i.
translate_with_context_body(segments, i, ok1, ok2) ==
    LET segment == segments[i + 1]
        context_text == join(context_texts(segments, i))
        rc == translate_text(context_text, ok1)
        original_text == segment.text
        r == translate_text(original_text, ok2)
        ctx_call == IF rc.called THEN <<call(context_text, ok1)>> ELSE <<>>
        own_call == IF r.called THEN <<call(original_text, ok2)>> ELSE <<>>
    IN  IF rc.raised
        THEN [append |-> <<translation_fallback(segment)>>, calls |-> ctx_call]
        ELSE IF r.raised
        THEN [append |-> <<translation_fallback(segment)>>,
              calls |-> ctx_call \o own_call]
        ELSE [append |-> <<with_translation(segment, original_text, r.value)>>,
              calls |-> ctx_call \o own_call]

\* ------------------------------------------------------------ TTSProcessor
\* Sample rate of the clips the synthesizer writes (24000 against 16000).
tts_sample_rate == (3 * sample_rate) \div 2

\* Amplitude of sample k (1-based) of the clip synthesized for segment i
\* (0-based): never 0, and different for every (i, k).
clip_sample(i, k) == i * (MaxClip + 1) + k

clip(i, n) == [k \in 1..n |-> clip_sample(i, k)]

NoFile == [exists |-> FALSE, sr |-> 0, data |-> <<>>]

\* output_dir / f"segment_{i:04d}.wav"
segment_output(i) == <<"segment", i>>

\* synthesize_text: n < 0 is a failing tts_to_file, otherwise the length of
\* the clip it writes.
synthesize_text(text, output_path, n) ==
    IF is_blank(text)
    THEN [called |-> FALSE, raised |-> FALSE, value |-> None]
    ELSE IF n >= 0
    THEN [called |-> TRUE, raised |-> FALSE, value |-> output_path]
    ELSE [called |-> TRUE, raised |-> TRUE, value |-> None]

\* {**segment, "audio_path": p}
with_audio(segment, p) == [audio_path |-> p] @@ segment

\* segment.get("translated_text", segment.get("text", ""))
text_to_speak(segment) ==
    IF "translated_text" \in DOMAIN segment THEN segment.translated_text
    ELSE IF "text" \in DOMAIN segment THEN segment.text
    ELSE <<>>

\* synthesize_segments_body whose except branch appends nothing
synthesize_segments_body_drop(segment, i, n) ==
    LET text == text_to_speak(segment)
    IN  IF is_blank(text)
        THEN [append |-> <<with_audio(segment, None)>>, calls |-> <<>>,
              wrote |-> FALSE]
        ELSE IF n < 0
        THEN [append |-> <<>>, calls |-> <<[text |-> text, ok |-> FALSE]>>,
              wrote |-> FALSE]
        ELSE [append |-> <<with_audio(segment, segment_output(i))>>,
              calls |-> <<[text |-> text, ok |-> TRUE]>>, wrote |-> TRUE]

\* synthesize_segments_body whose except branch keeps the segment's path
synthesize_segments_body_keep_path(segment, i, n) ==
    LET text == text_to_speak(segment)
    IN  IF is_blank(text)
        THEN [append |-> <<with_audio(segment, None)>>, calls |-> <<>>,
              wrote |-> FALSE]
        ELSE [append |-> <<with_audio(segment, segment_output(i))>>,
              calls |-> <<[text |-> text, ok |-> n >= 0]>>, wrote |-> n >= 0]

\* synthesize_segments_body trying a failed synthesis a second time
synthesize_segments_body_retry(segment, i, n) ==
    LET text == text_to_speak(segment)
        r == synthesize_text(text, segment_output(i), n)
    IN  IF is_blank(text)
        THEN [append |-> <<with_audio(segment, None)>>, calls |-> <<>>,
              wrote |-> FALSE]
        ELSE IF r.raised
        THEN [append |-> <<with_audio(segment, None)>>,
              calls |-> <<call(text, FALSE), call(text, FALSE)>>, wrote |-> FALSE]
        ELSE [append |-> <<with_audio(segment, r.value)>>,
              calls |-> <<call(text, TRUE)>>, wrote |-> TRUE]

\* One iteration of the loop of synthesize_segments, 0-based i: what it
\* appends, the synthesizer calls it makes, whether a clip file was written.
synthesize_segments_body(segment, i, n) ==
    LET text == text_to_speak(segment)
        r == synthesize_text(text, segment_output(i), n)
    IN  IF is_blank(text)
        THEN [append |-> <<with_audio(segment, None)>>, calls |-> <<>>,
              wrote |-> FALSE]
        ELSE IF r.raised
        THEN [append |-> <<with_audio(segment, None)>>,
              calls |-> <<call(text, FALSE)>>, wrote |-> FALSE]
        ELSE [append |-> <<with_audio(segment, r.value)>>,
              calls |-> <<call(text, TRUE)>>, wrote |-> TRUE]

\* to_samples rounding to the nearest sample (half up) instead of truncating
to_samples_rounded(ticks) == (2 * ticks * sample_rate + TicksPerSecond) \div (2 * TicksPerSecond)

\* int(seconds * sample_rate) for a time given in ticks (times are >= 0)
to_samples(ticks) == (ticks * sample_rate) \div TicksPerSecond

\* Python's round(seconds * sample_rate): half to even
round_samples(ticks) ==
    LET x == ticks * sample_rate
        q == x \div TicksPerSecond
        r == x % TicksPerSecond
    IN  IF 2 * r < TicksPerSecond THEN q
        ELSE IF 2 * r > TicksPerSecond THEN q + 1
        ELSE IF q % 2 = 0 THEN q ELSE q + 1

\* librosa.resample: the clip at the target rate, ceil(n * target / orig)
\* samples, each taken from the source sample it falls on.
resample(audio, orig_sr, target_sr) ==
    LET n == (Len(audio) * target_sr + orig_sr - 1) \div orig_sr
    IN  [k \in 1..n |-> audio[min(Len(audio), ((k - 1) * orig_sr) \div target_sr + 1)]]

\* audio[:n] with Python's meaning of a negative n
py_prefix(audio, n) ==
    IF n >= 0 THEN SubSeq(audio, 1, min(n, Len(audio)))
    ELSE SubSeq(audio, 1, max(0, Len(audio) + n))

\* os.path.exists(audio_path) and sf.read(audio_path)
file_of(files, audio_path) ==
    IF audio_path[2] \in DOMAIN files THEN files[audio_path[2]] ELSE NoFile

\* place_segment applying a gain of 2 to the clip it copies
place_segment_gain(combined_audio, segment, files) ==
    LET audio_path == segment.audio_path
    IN  IF audio_path = None \/ ~file_of(files, audio_path).exists
        THEN [raised |-> FALSE, audio |-> combined_audio]
        ELSE
        LET f == file_of(files, audio_path)
            audio0 == IF f.sr # sample_rate
                      THEN resample(f.data, f.sr, sample_rate) ELSE f.data
            total == Len(combined_audio)
            start_sample == to_samples(segment.start)
            end0 == start_sample + Len(audio0)
            end_sample == IF end0 > total THEN total ELSE end0
            audio == IF end0 > total
                     THEN py_prefix(audio0, end_sample - start_sample) ELSE audio0
            lo == min(start_sample, total)
            hi == max(lo, min(end_sample, total))
        IN  IF Len(audio) = hi - lo
            THEN [raised |-> FALSE,
                  audio |-> [p \in 1..total |->
                      IF p > lo /\ p <= hi THEN 2 * audio[p - lo] ELSE combined_audio[p]]]
            ELSE IF Len(audio) = 1
            THEN [raised |-> FALSE,
                  audio |-> [p \in 1..total |->
                      IF p > lo /\ p <= hi THEN 2 * audio[1] ELSE combined_audio[p]]]
            ELSE [raised |-> TRUE, audio |-> combined_audio]

\* place_segment keeping what an earlier clip already wrote (first write wins)
place_segment_first_wins(combined_audio, segment, files) ==
    LET audio_path == segment.audio_path
    IN  IF audio_path = None \/ ~file_of(files, audio_path).exists
        THEN [raised |-> FALSE, audio |-> combined_audio]
        ELSE
        LET f == file_of(files, audio_path)
            audio0 == IF f.sr # sample_rate
                      THEN resample(f.data, f.sr, sample_rate) ELSE f.data
            total == Len(combined_audio)
            start_sample == to_samples(segment.start)
            end0 == start_sample + Len(audio0)
            end_sample == IF end0 > total THEN total ELSE end0
            audio == IF end0 > total
                     THEN py_prefix(audio0, end_sample - start_sample) ELSE audio0
            lo == min(start_sample, total)
            hi == max(lo, min(end_sample, total))
        IN  IF Len(audio) = hi - lo
            THEN [raised |-> FALSE,
                  audio |-> [p \in 1..total |->
                      IF p > lo /\ p <= hi /\ combined_audio[p] = 0
                      THEN audio[p - lo] ELSE combined_audio[p]]]
            ELSE IF Len(audio) = 1
            THEN [raised |-> FALSE,
                  audio |-> [p \in 1..total |->
                      IF p > lo /\ p <= hi /\ combined_audio[p] = 0
                      THEN audio[1] ELSE combined_audio[p]]]
            ELSE [raised |-> TRUE, audio |-> combined_audio]

\* The body of the loop of combine_segments for one segment: the buffer after
\* it, or raised when numpy refuses the assignment.
place_segment(combined_audio, segment, files) ==
    LET audio_path == segment.audio_path
    IN  IF audio_path = None \/ ~file_of(files, audio_path).exists
        THEN [raised |-> FALSE, audio |-> combined_audio]
        ELSE
        LET f == file_of(files, audio_path)
            audio0 == IF f.sr # sample_rate
                      THEN resample(f.data, f.sr, sample_rate) ELSE f.data
            total == Len(combined_audio)
            start_sample == to_samples(segment.start)
            end0 == start_sample + Len(audio0)
            end_sample == IF end0 > total THEN total ELSE end0
            audio == IF end0 > total
                     THEN py_prefix(audio0, end_sample - start_sample) ELSE audio0
            lo == min(start_sample, total)
            hi == max(lo, min(end_sample, total))
        IN  IF Len(audio) = hi - lo
            THEN [raised |-> FALSE,
                  audio |-> [p \in 1..total |->
                      IF p > lo /\ p <= hi THEN audio[p - lo] ELSE combined_audio[p]]]
            ELSE IF Len(audio) = 1
            THEN [raised |-> FALSE,
                  audio |-> [p \in 1..total |->
                      IF p > lo /\ p <= hi THEN audio[1] ELSE combined_audio[p]]]
            ELSE [raised |-> TRUE, audio |-> combined_audio]

RECURSIVE place_from(_, _, _, _)
place_from(combined_audio, segments, i, files) ==
    IF i > Len(segments) THEN [raised |-> FALSE, audio |-> combined_audio]
    ELSE LET r == place_segment(combined_audio, segments[i], files)
         IN  IF r.raised THEN r ELSE place_from(r.audio, segments, i + 1, files)

\* combine_segments over a buffer that is not zeroed (np.empty for np.zeros)
combine_segments_uninit(segments, files, write_ok) ==
    IF segments = <<>>
    THEN [raised |-> FALSE, value |-> None, written |-> FALSE, audio |-> <<>>]
    ELSE
    LET total_samples == to_samples(segments[Len(segments)].end)
        r == place_from([p \in 1..total_samples |-> 1], segments, 1, files)
    IN  IF r.raised \/ ~write_ok
        THEN [raised |-> TRUE, value |-> None, written |-> FALSE, audio |-> r.audio]
        ELSE [raised |-> FALSE, value |-> <<"output_path">>, written |-> TRUE,
              audio |-> r.audio]

\* combine_segments writing a zero-length file for an empty list
combine_segments_empty_file(segments, files, write_ok) ==
    IF segments = <<>>
    THEN [raised |-> ~write_ok, value |-> IF write_ok THEN <<"output_path">> ELSE None,
          written |-> write_ok, audio |-> <<>>]
    ELSE
    LET total_samples == to_samples(segments[Len(segments)].end)
        r == place_from([p \in 1..total_samples |-> 0], segments, 1, files)
    IN  IF r.raised \/ ~write_ok
        THEN [raised |-> TRUE, value |-> None, written |-> FALSE, audio |-> r.audio]
        ELSE [raised |-> FALSE, value |-> <<"output_path">>, written |-> TRUE,
              audio |-> r.audio]

\* combine_segments: value is what it returns (None for an empty list),
\* written whether the output file was written, audio the buffer.
combine_segments(segments, files, write_ok) ==
    IF segments = <<>>
    THEN [raised |-> FALSE, value |-> None, written |-> FALSE, audio |-> <<>>]
    ELSE
    LET total_duration == segments[Len(segments)].end
        total_samples == to_samples(total_duration)
        r == place_from([p \in 1..total_samples |-> 0], segments, 1, files)
    IN  IF r.raised \/ ~write_ok
        THEN [raised |-> TRUE, value |-> None, written |-> FALSE, audio |-> r.audio]
        ELSE [raised |-> FALSE, value |-> <<"output_path">>, written |-> TRUE,
              audio |-> r.audio]

\* ------------------------------------------------------------------- state
VARIABLES
    pc,                     \* position of the worker (or of the direct caller)
    mode,                   \* "fast" | "context": ProcessingThread.mode
    sync_duration,          \* ProcessingThread.sync_duration
    transcription,          \* transcription["segments"]
    translated_segments,
    synthesized_segments,
    i,                      \* index of the running stage loop (enumerate)
    loaded,                 \* processors whose model is loaded
    unloaded,               \* processors whose unload_model was invoked
    calls,                  \* invocations of the external models, in order
    files,                  \* DOWNLOADS_DIR/segments: segment index -> clip file
    combined,               \* OUTPUT_DIR/<stem>_translated_audio.wav
    progress,               \* progress_update events, in order
    finished,               \* finished events, in order
    exc,                    \* the exception in flight or caught ("" for none)
    original_duration,      \* duration of the extracted audio, once measured
    process_button          \* MainWindow.process_button is enabled

vars == <<pc, mode, sync_duration, transcription, translated_segments,
          synthesized_segments, i, loaded, unloaded, calls, files, combined,
          progress, finished, exc, original_duration, process_button>>

Modes == {"fast", "context"}

Spans == {sp \in (0..MaxTick) \X (0..MaxTick) : sp[1] < sp[2]}

\* What faster-whisper hands to transcribe: a span and the raw text.
RawTexts == {<<>>, <<" ">>, <<"a">>, <<" ", "a">>}

\* segment_dict of ASRProcessor.transcribe
segment_dict(sp, raw) ==
    [start |-> sp[1], end |-> sp[2], duration |-> sp[2] - sp[1],
     text |-> strip(raw), words |-> <<>>]

\* Whisper's timestamps fall on whole samples of the composed rate.
WhisperSpans == {sp \in Spans : to_samples(sp[1]) * TicksPerSecond = sp[1] * sample_rate
                                /\ to_samples(sp[2]) * TicksPerSecond = sp[2] * sample_rate}

Recognized == {segment_dict(sp, raw) : sp \in WhisperSpans, raw \in RawTexts}

ListsOf(S) == UNION {[1..n -> S] : n \in 0..MaxSegs}

NoFiles == [j \in 0..(MaxSegs - 1) |-> NoFile]

\* not measured
Unknown == -1

\* fresh: written by combine_segments in this run; matched: rewritten by
\* save_audio after match_duration
Absent == [exists |-> FALSE, fresh |-> FALSE, matched |-> FALSE, data |-> <<>>]
\* a combined file an earlier run left in OUTPUT_DIR
Stale == [exists |-> TRUE, fresh |-> FALSE, matched |-> FALSE,
          data |-> clip(MaxSegs, MaxClip)]

\* the percentage counted as what remains to do
emit_remaining(pct, label) == [pct |-> 100 - pct, label |-> label]

\* progress_update.emit(pct, message)
emit(pct, label) == [pct |-> pct, label |-> label]

\* MainWindow before start_processing
Init ==
    /\ pc = "Idle"
    /\ mode \in Modes
    /\ sync_duration \in BOOLEAN
    /\ transcription = <<>>
    /\ translated_segments = <<>>
    /\ synthesized_segments = <<>>
    /\ i = 0
    /\ loaded = {}
    /\ unloaded = {}
    /\ calls = <<>>
    /\ files = NoFiles
    /\ combined \in {Absent, Stale}
    /\ progress = <<>>
    /\ finished = <<>>
    /\ exc = ""
    /\ original_duration = Unknown
    /\ process_button = TRUE

\* raise: the statement's exception propagates to the caller
Raise(cause) == pc' = "raise" /\ exc' = cause

\* ------------------------------------------------ ProcessingThread.run, head
\* start_processing: the controls are disabled, the thread is created and
\* started (a disabled process_button delivers no click)
start_processing ==
    /\ pc = "Idle"
    /\ process_button
    /\ process_button' = FALSE
    /\ pc' = "run"
    /\ UNCHANGED <<original_duration, i, mode, sync_duration, transcription,
                   translated_segments, synthesized_segments, loaded, unloaded,
                   calls, files, combined, progress, finished, exc>>

\* run, lines 39-54: initialisation and extraction (extract_audio_from_video for
\* a video input, convert_to_wav otherwise: either returns or raises)
Extract ==
    /\ pc = "run"
    /\ progress' = progress \o <<emit(5, "init"), emit(10, "extract")>>
    /\ \E ok \in BOOLEAN :
        IF ok THEN pc' = "recognize" /\ exc' = exc ELSE Raise("extract")
    /\ UNCHANGED <<original_duration, process_button, i, mode, sync_duration, transcription, translated_segments,
                   synthesized_segments, loaded, unloaded, calls, files, combined,
                   finished>>

\* run, lines 57-66: ASRProcessor.transcribe
Recognize ==
    /\ pc = "recognize"
    /\ \/ \* load_model raises
          /\ Raise("asr_load")
          /\ progress' = Append(progress, emit(20, "recognize"))
          /\ UNCHANGED <<loaded, transcription>>
       \/ \* model.transcribe raises
          /\ Raise("transcribe")
          /\ progress' = Append(progress, emit(20, "recognize"))
          /\ loaded' = loaded \cup {"asr"}
          /\ UNCHANGED transcription
       \/ \E segs \in ListsOf(Recognized) :
          /\ transcription' = segs
          /\ loaded' = loaded \cup {"asr"}
          /\ progress' = progress \o <<emit(20, "recognize"), emit(40, "recognized")>>
          /\ pc' = "save_transcription"
          /\ exc' = exc
    /\ UNCHANGED <<original_duration, process_button, i, mode, sync_duration, translated_segments,
                   synthesized_segments, unloaded, calls, files, combined, finished>>

\* run, lines 68-79: save_transcription, save_subtitles, TranslationProcessor()
SaveTranscription ==
    /\ pc = "save_transcription"
    /\ \E ok \in BOOLEAN :
        IF ok
        THEN /\ pc' = "translate_load"
             /\ exc' = exc
             /\ progress' = Append(progress, emit(50, "translate"))
        ELSE Raise("save_transcription") /\ UNCHANGED progress
    /\ UNCHANGED <<original_duration, process_button, i, mode, sync_duration, transcription, translated_segments,
                   synthesized_segments, loaded, unloaded, calls, files, combined,
                   finished>>

\* ------------------------------------------------------- translation stage
\* load_model failing inside the loop's try: logged, and the loop goes on
translation_load_model_absorbed ==
    /\ pc = "translate_load"
    /\ \E ok \in BOOLEAN :
        /\ pc' = "translate_loop"
        /\ IF ok
           THEN exc' = exc /\ loaded' = loaded \cup {"translation"}
           ELSE exc' = "translation_load" /\ UNCHANGED loaded
    /\ translated_segments' = <<>>
    /\ i' = 0
    /\ UNCHANGED <<original_duration, process_button, mode, sync_duration,
                   transcription, synthesized_segments, unloaded, calls, files,
                   combined, progress, finished>>

\* translate_segments / translate_with_context, lines 136-137 / 192-193
translation_load_model ==
    /\ pc = "translate_load"
    /\ \E ok \in BOOLEAN :
        IF ok
        THEN /\ pc' = "translate_loop"
             /\ exc' = exc
             /\ loaded' = loaded \cup {"translation"}
        ELSE Raise("translation_load") /\ UNCHANGED loaded
    /\ translated_segments' = <<>>
    /\ i' = 0
    /\ UNCHANGED <<original_duration, process_button, mode, sync_duration, transcription, synthesized_segments,
                   unloaded, calls, files, combined, progress, finished>>

\* the calls of iteration j of a stage loop, as logged
call_records(model, j, cs) ==
    [k \in 1..Len(cs) |-> [model |-> model, i |-> j, text |-> cs[k].text,
                           ok |-> cs[k].ok]]

\* one iteration of the loop of translate_segments
translate_segments_step ==
    /\ pc = "translate_loop"
    /\ mode = "fast"
    /\ i < Len(transcription)
    /\ \E ok \in BOOLEAN :
        LET r == translate_segments_body(transcription[i + 1], ok)
        IN  /\ translated_segments' = translated_segments \o r.append
            /\ calls' = calls \o call_records("translation", i, r.calls)
    /\ i' = i + 1
    /\ UNCHANGED <<original_duration, process_button, pc, mode, sync_duration, transcription,
                   synthesized_segments, loaded, unloaded, files, combined,
                   progress, finished, exc>>

\* one iteration of the loop of translate_with_context
translate_with_context_step ==
    /\ pc = "translate_loop"
    /\ mode = "context"
    /\ i < Len(transcription)
    /\ \E ok1 \in BOOLEAN, ok2 \in BOOLEAN :
        LET r == translate_with_context_body(transcription, i, ok1, ok2)
        IN  /\ translated_segments' = translated_segments \o r.append
            /\ calls' = calls \o call_records("translation", i, r.calls)
    /\ i' = i + 1
    /\ UNCHANGED <<original_duration, process_button, pc, mode, sync_duration, transcription,
                   synthesized_segments, loaded, unloaded, files, combined,
                   progress, finished, exc>>

translation_returned == pc = "translate_loop" /\ i = Len(transcription)

\* run, lines 86-95: save_translation, TTSProcessor()
TranslationCompleted ==
    /\ translation_returned
    /\ \E ok \in BOOLEAN :
        IF ok
        THEN /\ pc' = "synth_load"
             /\ exc' = exc
             /\ progress' = progress \o <<emit(65, "translated"), emit(70, "synthesize")>>
        ELSE /\ Raise("save_translation")
             /\ progress' = Append(progress, emit(65, "translated"))
    /\ UNCHANGED <<original_duration, process_button, i, mode, sync_duration, transcription, translated_segments,
                   synthesized_segments, loaded, unloaded, calls, files, combined,
                   finished>>

\* --------------------------------------------------------- synthesis stage
\* synthesize_segments, lines 152-153
tts_load_model ==
    /\ pc = "synth_load"
    /\ \E ok \in BOOLEAN :
        IF ok
        THEN /\ pc' = "synth_loop"
             /\ exc' = exc
             /\ loaded' = loaded \cup {"tts"}
        ELSE Raise("tts_load") /\ UNCHANGED loaded
    /\ synthesized_segments' = <<>>
    /\ i' = 0
    /\ UNCHANGED <<original_duration, process_button, mode, sync_duration, transcription, translated_segments,
                   unloaded, calls, files, combined, progress, finished>>

\* what tts_to_file can do: fail (-1) or write a clip of 1..MaxClip samples
SynthOutcomes == {-1} \cup (1..MaxClip)

\* one iteration of the loop of synthesize_segments
synthesize_segments_step ==
    /\ pc = "synth_loop"
    /\ i < Len(translated_segments)
    /\ \E n \in SynthOutcomes :
        LET r == synthesize_segments_body(translated_segments[i + 1], i, n)
        IN  /\ synthesized_segments' = synthesized_segments \o r.append
            /\ calls' = calls \o call_records("tts", i, r.calls)
            /\ files' = IF r.wrote
                        THEN [files EXCEPT ![i] =
                                [exists |-> TRUE, sr |-> tts_sample_rate,
                                 data |-> clip(i, n)]]
                        ELSE files
    /\ i' = i + 1
    /\ UNCHANGED <<original_duration, process_button, pc, mode, sync_duration, transcription,
                   translated_segments, loaded, unloaded, combined, progress,
                   finished, exc>>

synthesis_returned == pc = "synth_loop" /\ i = Len(translated_segments)

\* Combining without its progress event
Combining_silent ==
    /\ synthesis_returned
    /\ pc' = "combine"
    /\ UNCHANGED <<original_duration, process_button, i, mode, sync_duration,
                   transcription, translated_segments, synthesized_segments,
                   loaded, unloaded, calls, files, combined, progress, finished,
                   exc>>

\* run, line 98
Combining ==
    /\ synthesis_returned
    /\ pc' = "combine"
    /\ progress' = Append(progress, emit(85, "combine"))
    /\ UNCHANGED <<original_duration, process_button, i, mode, sync_duration, transcription, translated_segments,
                   synthesized_segments, loaded, unloaded, calls, files, combined,
                   finished, exc>>

\* ------------------------------------------------------------- composition
\* combine_segments(synthesized_segments, combined_audio)
Combine ==
    /\ pc = "combine"
    /\ \E write_ok \in BOOLEAN :
        LET r == combine_segments(synthesized_segments, files, write_ok)
        IN  IF r.raised
            THEN Raise("combine") /\ UNCHANGED combined
            ELSE /\ pc' = IF r.value = None THEN "combined_none" ELSE "combined"
                 /\ exc' = exc
                 /\ combined' = IF r.written
                                THEN [exists |-> TRUE, fresh |-> TRUE, matched |-> FALSE,
                                      data |-> r.audio]
                                ELSE combined
    /\ UNCHANGED <<original_duration, process_button, i, mode, sync_duration, transcription, translated_segments,
                   synthesized_segments, loaded, unloaded, calls, files, progress,
                   finished>>

\* ------------------------------------------------ ProcessingThread.run, tail
\* durations the extracted source audio can have, in ticks
SourceDurations == {0, TicksPerSecond, 2 * TicksPerSecond + 1}

\* len(audio) / sample_rate, in ticks
duration_of(audio) == (Len(audio) * TicksPerSecond) \div sample_rate

abs(x) == IF x < 0 THEN -x ELSE x

\* Python's round(a / b) for a >= 0 and b > 0: half to even
py_round(a, b) ==
    LET q == a \div b
        r == a % b
    IN  IF 2 * r < b THEN q
        ELSE IF 2 * r > b THEN q + 1
        ELSE IF q % 2 = 0 THEN q ELSE q + 1

\* time_stretch giving len * rate samples
time_stretch_multiplying(audio_data, num, den) ==
    IF num <= 0 \/ den <= 0
    THEN [raised |-> TRUE, audio |-> audio_data]
    ELSE [raised |-> FALSE,
          audio |-> resample(audio_data, Len(audio_data),
                             py_round(Len(audio_data) * num, den))]

\* AudioProcessor.time_stretch(audio_data, rate) for rate = num / den:
\* librosa's time_stretch refuses a rate that is not positive and gives
\* round(len / rate) samples otherwise; its error is logged and raised again.
time_stretch(audio_data, num, den) ==
    IF num <= 0 \/ den <= 0
    THEN [raised |-> TRUE, audio |-> audio_data]
    ELSE [raised |-> FALSE,
          audio |-> resample(audio_data, Len(audio_data),
                             py_round(Len(audio_data) * den, num))]

\* match_duration with the rate inverted: target / current
match_duration_inverted(audio_data, target_duration) ==
    LET current_duration == (Len(audio_data) * TicksPerSecond) \div sample_rate
    IN  IF current_duration = 0
        THEN [called |-> FALSE, raised |-> TRUE, rate |-> <<target_duration, 0>>,
              audio |-> audio_data]
        ELSE LET num == target_duration
                 den == current_duration
                 r == IF num <= 0
                      THEN [raised |-> TRUE, audio |-> audio_data]
                      ELSE [raised |-> FALSE,
                            audio |-> resample(audio_data, Len(audio_data),
                                               py_round(Len(audio_data) * den, num))]
             IN  [called |-> TRUE, raised |-> r.raised, rate |-> <<num, den>>,
                  audio |-> r.audio]

\* AudioProcessor.match_duration: rate = current_duration / target_duration
\* (a ZeroDivisionError for a target of 0), then time_stretch at that rate.
\* called: time_stretch was invoked; rate: numerator and denominator.
match_duration(audio_data, target_duration) ==
    LET current_duration == duration_of(audio_data)
    IN  IF target_duration = 0
        THEN [called |-> FALSE, raised |-> TRUE, rate |-> <<current_duration, 0>>,
              audio |-> audio_data]
        ELSE LET r == time_stretch(audio_data, current_duration, target_duration)
             IN  [called |-> TRUE, raised |-> r.raised,
                  rate |-> <<current_duration, target_duration>>, audio |-> r.audio]

\* the test of line 111 with the boundary excluded from the no-op
beyond_tolerance_inclusive(original, translated) ==
    abs(original - translated) >= TicksPerSecond

\* run, line 111: abs(original_duration - translated_duration) > 1.0
beyond_tolerance(original, translated) ==
    abs(original - translated) > TicksPerSecond

\* what get_audio_duration(audio_path) can return: the duration of the
\* extracted audio, drawn when it is first measured
measured_durations ==
    IF original_duration = Unknown THEN SourceDurations ELSE {original_duration}

\* run, lines 104-114
Reconcile ==
    /\ pc \in {"combined", "combined_none"}
    /\ IF ~sync_duration
       THEN /\ pc' = "export"
            /\ UNCHANGED <<progress, combined, exc, calls, original_duration>>
       ELSE /\ progress' = Append(progress, emit(90, "sync"))
            /\ \E ok \in BOOLEAN :
                IF ~ok \/ ~combined.exists
                THEN \* get_audio_duration raises
                     /\ Raise("duration")
                     /\ UNCHANGED <<combined, calls, original_duration>>
                ELSE \E d \in measured_durations, save_ok \in BOOLEAN :
                     LET translated_duration == duration_of(combined.data)
                         m == match_duration(combined.data, d)
                         stretch == IF m.called
                                    THEN call_records("time_stretch", 0,
                                                      <<call(m.rate, ~m.raised)>>)
                                    ELSE <<>>
                     IN  /\ original_duration' = d
                         /\ IF beyond_tolerance(d, translated_duration)
                            THEN /\ calls' = calls \o stretch
                                 /\ IF m.raised
                                    THEN Raise("stretch") /\ UNCHANGED combined
                                    ELSE IF ~save_ok
                                    THEN Raise("save_audio") /\ UNCHANGED combined
                                    ELSE /\ pc' = "export"
                                         /\ exc' = exc
                                         /\ combined' = [combined EXCEPT
                                                !.data = m.audio, !.matched = TRUE]
                            ELSE /\ pc' = "export"
                                 /\ UNCHANGED <<combined, exc, calls>>
    /\ UNCHANGED <<process_button, i, mode, sync_duration, transcription,
                   translated_segments, synthesized_segments, loaded, unloaded,
                   files, finished>>

Processors == {"asr", "translation", "tts"}

\* the texts of the finished signal: f"Success! Output saved to:\n{final_output}"
\* and f"Error during processing:\n{str(e)}", as their fixed part and the
\* value formatted into it
success_message(final_output) ==
    [text |-> "Success! Output saved to:", final_output |-> final_output]

error_message(e) == [text |-> "Error during processing:", str_e |-> e]

\* run, lines 116-136: export (replace_audio_in_video or shutil.copy, which
\* need the combined file), clean up, finished(True)
Export ==
    /\ pc = "export"
    /\ \E ok \in BOOLEAN :
        IF ok /\ combined.exists
        THEN /\ pc' = "Succeeded"
             /\ exc' = exc
             /\ progress' = progress \o <<emit(95, "export"), emit(100, "completed")>>
             /\ unloaded' = unloaded \cup Processors
             /\ loaded' = loaded \ Processors
             /\ finished' = Append(finished, [success |-> TRUE,
                                                  message |-> success_message("final_output")])
        ELSE /\ Raise("export")
             /\ progress' = Append(progress, emit(95, "export"))
             /\ UNCHANGED <<unloaded, loaded, finished>>
    /\ UNCHANGED <<original_duration, process_button, i, mode, sync_duration, transcription, translated_segments,
                   synthesized_segments, calls, files, combined>>

\* the except branch emitting no finished event
Except_silent ==
    /\ pc = "raise"
    /\ pc' = "Failed"
    /\ UNCHANGED <<original_duration, process_button, i, mode, sync_duration,
                   transcription, translated_segments, synthesized_segments,
                   loaded, unloaded, calls, files, combined, progress, finished,
                   exc>>

\* run, lines 138-139: except Exception as e
Except ==
    /\ pc = "raise"
    /\ pc' = "Failed"
    /\ finished' = Append(finished, [success |-> FALSE,
                                         message |-> error_message(exc)])
    /\ UNCHANGED <<original_duration, process_button, i, mode, sync_duration, transcription, translated_segments,
                   synthesized_segments, loaded, unloaded, calls, files, combined,
                   progress, exc>>

\* MainWindow.processing_finished, the slot of the finished signal: the
\* controls are enabled again and the message is shown
processing_finished ==
    /\ pc \in {"Succeeded", "Failed"}
    /\ finished # <<>>
    /\ ~process_button
    /\ process_button' = TRUE
    /\ UNCHANGED <<original_duration, pc, i, mode, sync_duration, transcription,
                   translated_segments, synthesized_segments, loaded, unloaded,
                   calls, files, combined, progress, finished, exc>>

Next ==
    \/ start_processing
    \/ Extract
    \/ Recognize
    \/ SaveTranscription
    \/ translation_load_model
    \/ translate_segments_step
    \/ translate_with_context_step
    \/ TranslationCompleted
    \/ tts_load_model
    \/ synthesize_segments_step
    \/ Combining
    \/ Combine
    \/ Reconcile
    \/ Export
    \/ Except
    \/ processing_finished

Spec == Init /\ [][Next]_vars

\* the steps of the worker thread, ProcessingThread.run, but for the call of
\* combine_segments
Worker ==
    \/ Extract
    \/ Recognize
    \/ SaveTranscription
    \/ translation_load_model
    \/ translate_segments_step
    \/ translate_with_context_step
    \/ TranslationCompleted
    \/ tts_load_model
    \/ synthesize_segments_step
    \/ Combining
    \/ Reconcile
    \/ Export
    \/ Except

\* A started thread keeps running and every call it makes returns or raises
\* (for combine_segments: the worker does not stay in the call for ever); the
\* event loop delivers the finished signal to its slot.  Whether the user
\* ever presses the button is left open.
SpecLive ==
    /\ Spec
    /\ WF_vars(Worker)
    /\ []<>(pc # "combine")
    /\ WF_vars(processing_finished)

\* ------------------------------------------------ run after run in one window
\* start_processing on a click after a run has finished: a new ProcessingThread
\* with the options then selected; its processors are new objects without a
\* model.  Nothing waits for the earlier thread and nothing unloads what it
\* loaded.  Clips of the earlier run are rewritten before they are read; its
\* combined file stays in OUTPUT_DIR as a stale one.
start_processing_again ==
    /\ pc \in {"Succeeded", "Failed"}
    /\ process_button
    /\ process_button' = FALSE
    /\ pc' = "run"
    /\ mode' \in Modes
    /\ sync_duration' \in BOOLEAN
    /\ transcription' = <<>>
    /\ translated_segments' = <<>>
    /\ synthesized_segments' = <<>>
    /\ i' = 0
    /\ loaded' = {}
    /\ unloaded' = {}
    /\ calls' = <<>>
    /\ files' = NoFiles
    /\ combined' = IF combined.exists THEN Stale ELSE Absent
    /\ progress' = <<>>
    /\ finished' = <<>>
    /\ exc' = ""
    /\ original_duration' = Unknown

\* the worker thread returns from run() after the except branch: its local
\* processors go out of scope, and the models they hold with them
run_returned ==
    /\ pc = "Failed"
    /\ finished # <<>>
    /\ loaded # {}
    /\ loaded' = {}
    /\ UNCHANGED <<original_duration, process_button, pc, i, mode, sync_duration,
                   transcription, translated_segments, synthesized_segments,
                   unloaded, calls, files, combined, progress, finished, exc>>

NextWindow ==
    \/ start_processing
    \/ Extract
    \/ Recognize
    \/ SaveTranscription
    \/ translation_load_model
    \/ translate_segments_step
    \/ translate_with_context_step
    \/ TranslationCompleted
    \/ tts_load_model
    \/ synthesize_segments_step
    \/ Combining
    \/ Combine
    \/ Reconcile
    \/ Export
    \/ Except
    \/ processing_finished
    \/ run_returned
    \/ start_processing_again

SpecWindow == Init /\ [][NextWindow]_vars

\* ------------------------------------------------- the stages called directly
\* Texts a caller of translate_segments may pass (not stripped).
ApiTexts == {<<>>, <<" ">>, <<"a">>}

ApiSpans == {<<0, 1>>, <<1, MaxTick>>}

ApiSegments ==
    {[start |-> sp[1], end |-> sp[2], duration |-> sp[2] - sp[1], text |-> t,
      words |-> <<>>] : sp \in ApiSpans, t \in ApiTexts}

\* A caller about to call translate_segments or translate_with_context
InitStages ==
    /\ pc = "translate_load"
    /\ mode \in Modes
    /\ sync_duration = FALSE
    /\ transcription \in ListsOf(ApiSegments)
    /\ translated_segments = <<>>
    /\ synthesized_segments = <<>>
    /\ i = 0
    /\ loaded = {}
    /\ unloaded = {}
    /\ calls = <<>>
    /\ files = NoFiles
    /\ combined = Absent
    /\ progress = <<>>
    /\ finished = <<>>
    /\ exc = ""
    /\ original_duration = Unknown
    /\ process_button = TRUE

\* the caller hands the translated list to synthesize_segments
CallSynthesize ==
    /\ translation_returned
    /\ pc' = "synth_load"
    /\ UNCHANGED <<original_duration, process_button, i, mode, sync_duration, transcription, translated_segments,
                   synthesized_segments, loaded, unloaded, calls, files, combined,
                   progress, finished, exc>>

NextStages ==
    \/ translation_load_model
    \/ translate_segments_step
    \/ translate_with_context_step
    \/ CallSynthesize
    \/ tts_load_model
    \/ synthesize_segments_step

SpecStages == InitStages /\ [][NextStages]_vars

\* What a segment handed to combine_segments can carry: no audio_path (-2),
\* an audio_path whose file is missing (-1), or a clip of n samples.
AudioOptions == {-2, -1} \cup (1..MaxClip)

combine_input(spans, audio) ==
    [k \in 1..Len(spans) |->
        [start |-> spans[k][1], end |-> spans[k][2],
         audio_path |-> IF audio[k] = -2 THEN None ELSE segment_output(k - 1)]]

\* the clip files of such a list, already at the composed rate
combine_files(audio) ==
    [j \in 0..(MaxSegs - 1) |->
        IF j + 1 \in DOMAIN audio /\ audio[j + 1] >= 0
        THEN [exists |-> TRUE, sr |-> sample_rate, data |-> clip(j, audio[j + 1])]
        ELSE NoFile]

\* A caller about to call combine_segments
InitCombine ==
    /\ pc = "combine"
    /\ mode = "fast"
    /\ sync_duration = FALSE
    /\ transcription = <<>>
    /\ translated_segments = <<>>
    /\ i = 0
    /\ \E n \in 0..MaxSegs :
        \E spans \in [1..n -> Spans], audio \in [1..n -> AudioOptions] :
            /\ synthesized_segments = combine_input(spans, audio)
            /\ files = combine_files(audio)
    /\ loaded = {}
    /\ unloaded = {}
    /\ calls = <<>>
    /\ combined = Absent
    /\ progress = <<>>
    /\ finished = <<>>
    /\ exc = ""
    /\ original_duration = Unknown
    /\ process_button = TRUE

NextCombine == Combine

SpecCombine == InitCombine /\ [][NextCombine]_vars

\* --------------------------------------- the duration matching, called directly
\* Composed audio a caller may hold: 0..MaxSamples samples at sample_rate.
ReconcileAudio ==
    {[exists |-> TRUE, fresh |-> TRUE, matched |-> FALSE, data |-> clip(0, n)] :
        n \in 0..MaxSamples}

\* Durations of the source audio, in ticks: up to the longest composed audio.
ReconcileSources == 0..((MaxSamples * TicksPerSecond) \div sample_rate)

\* A caller about to run lines 104-114 on a composed file, the source known
InitReconcile ==
    /\ pc = "combined"
    /\ mode = "fast"
    /\ sync_duration \in BOOLEAN
    /\ transcription = <<>>
    /\ translated_segments = <<>>
    /\ synthesized_segments = <<>>
    /\ i = 0
    /\ loaded = {}
    /\ unloaded = {}
    /\ calls = <<>>
    /\ files = NoFiles
    /\ combined \in ReconcileAudio
    /\ progress = <<>>
    /\ finished = <<>>
    /\ exc = ""
    /\ original_duration \in ReconcileSources
    /\ process_button = FALSE

\* the caller runs lines 104-114 once more on what they left
ReconcileAgain ==
    /\ pc = "export"
    /\ Len(progress) < MaxPasses
    /\ pc' = "combined"
    /\ UNCHANGED <<original_duration, process_button, i, mode, sync_duration,
                   transcription, translated_segments, synthesized_segments,
                   loaded, unloaded, calls, files, combined, progress, finished,
                   exc>>

NextReconcile ==
    \/ Reconcile
    \/ ReconcileAgain

SpecReconcile == InitReconcile /\ [][NextReconcile]_vars

\* ------------------------------------ translate_with_context, called directly
\* The text recognized at position j (0-based): j + 1 letters, so that a
\* joined text shows which segments it was made of.
marked_text(j) == [k \in 1..(j + 1) |-> "a"]

\* Lists longer than the context window: consecutive one-tick segments, each
\* with its marked text or without text.
ContextLists ==
    UNION {{[k \in 1..n |-> [start |-> k - 1, end |-> k, duration |-> 1,
                             text |-> IF k \in S THEN marked_text(k - 1) ELSE <<>>,
                             words |-> <<>>]] : S \in SUBSET (1..n)}
           : n \in 0..MaxContext}

\* A caller about to call translate_with_context
InitContext ==
    /\ pc = "translate_load"
    /\ mode = "context"
    /\ sync_duration = FALSE
    /\ transcription \in ContextLists
    /\ translated_segments = <<>>
    /\ synthesized_segments = <<>>
    /\ i = 0
    /\ loaded = {}
    /\ unloaded = {}
    /\ calls = <<>>
    /\ files = NoFiles
    /\ combined = Absent
    /\ progress = <<>>
    /\ finished = <<>>
    /\ exc = ""
    /\ original_duration = Unknown
    /\ process_button = FALSE

NextContext ==
    \/ translation_load_model
    \/ translate_with_context_step

SpecContext == InitContext /\ [][NextContext]_vars

\* ------------------------------------------------------------ properties
Terminal == {"Succeeded", "Failed"}

\* some call of the model made in iteration j failed / was made
failed(model, j) ==
    \E k \in DOMAIN calls : calls[k].model = model /\ calls[k].i = j /\ ~calls[k].ok
called(model, j) ==
    \E k \in DOMAIN calls : calls[k].model = model /\ calls[k].i = j

\* C1: on every exit of a run, Succeeded or Failed, unload_model has been
\* invoked on every processor whose model the run loaded.
C1_UnloadOnEveryExit == pc \in Terminal => loaded \subseteq unloaded

\* C2: translate_segments, translate_with_context and synthesize_segments
\* return a list as long as their input, whatever calls failed.
C2_LengthPreserved ==
    /\ (translation_returned \/ pc \in {"synth_load", "synth_loop"})
            => Len(translated_segments) = Len(transcription)
    /\ synthesis_returned => Len(synthesized_segments) = Len(translated_segments)

C2_Witness ==
    /\ synthesis_returned
    /\ Len(transcription) = MaxSegs
    /\ failed("translation", 0) /\ called("translation", 1) /\ ~failed("translation", 1)
    /\ failed("tts", 1) /\ called("tts", 0) /\ ~failed("tts", 0)

same_segment(a, b) == a.start = b.start /\ a.end = b.end /\ a.text = b.text

\* C3: the list handed to combine_segments has one entry per recognized
\* segment, at the same index, also when synthesis of some segments failed.
C3_OneEntryPerRecognized ==
    pc = "combine" =>
        /\ Len(synthesized_segments) = Len(transcription)
        /\ \A k \in DOMAIN synthesized_segments :
               same_segment(synthesized_segments[k], transcription[k])

C3_Witness ==
    /\ pc = "combine"
    /\ Len(transcription) = 2
    /\ ~same_segment(transcription[1], transcription[2])
    /\ failed("tts", 0)
    /\ synthesized_segments[2].audio_path # None

\* every field of the input segment is in the output segment, unchanged
frame(in, out) == \A f \in DOMAIN in : f \in DOMAIN out /\ out[f] = in[f]

C5_IdentityFallback ==
    \A c \in DOMAIN calls :
        (calls[c].model = "translation" /\ ~calls[c].ok) =>
            /\ calls[c].i + 1 \in DOMAIN translated_segments
            /\ translated_segments[calls[c].i + 1].translated_text
                   = transcription[calls[c].i + 1].text
            /\ translated_segments[calls[c].i + 1].text
                   = transcription[calls[c].i + 1].text

C5_Witness ==
    /\ mode = "context"
    /\ translation_returned
    /\ Len(transcription) = 2
    /\ failed("translation", 1)
    /\ translated_segments[2].translated_text = <<"a">>
    /\ translated_segments[1].translated_text = <<"A">>

\* C6: a segment whose synthesis failed, or whose translated text is empty
\* or whitespace-only, is emitted by synthesize_segments with audio_path None.
C6_SilenceFallback ==
    pc = "synth_loop" =>
        /\ Len(synthesized_segments) = i
        /\ \A k \in 1..i :
            (is_blank(text_to_speak(translated_segments[k])) \/ failed("tts", k - 1))
                => synthesized_segments[k].audio_path = None

C6_Witness ==
    /\ synthesis_returned
    /\ Len(synthesized_segments) = 2
    /\ \E k \in 1..2 : failed("tts", k - 1) /\ synthesized_segments[k].audio_path = None
    /\ \E k \in 1..2 : /\ synthesized_segments[k].translated_text = <<" ">>
                       /\ synthesized_segments[k].audio_path = None

\* what segment j gets when only its own calls decide
own_translation(segment, j) ==
    IF failed("translation", j) THEN segment.text
    ELSE IF is_blank(segment.text) THEN <<>>
    ELSE translator(segment.text)
own_audio(segment, j) ==
    IF is_blank(text_to_speak(segment)) \/ failed("tts", j) THEN None
    ELSE segment_output(j)

C8_BlankShortCircuits ==
    \A k \in DOMAIN translated_segments :
        is_blank(transcription[k].text) =>
            /\ translated_segments[k].translated_text = <<>>
            /\ ~called("translation", k - 1)
            /\ k \in DOMAIN synthesized_segments =>
                   /\ synthesized_segments[k].audio_path = None
                   /\ ~called("tts", k - 1)

last_end == synthesized_segments[Len(synthesized_segments)].end

\* C9 as stated: the composed buffer has round(last_segment.end * sample_rate)
\* samples.
C9_RoundedLength ==
    pc = "combined" => Len(combined.data) = round_samples(last_end)

\* C9: the composed buffer has int(last_segment.end * sample_rate) samples
\* (truncated, not rounded), whatever the clips and their overlap.
C9_TruncatedLength ==
    pc = "combined" =>
        /\ Len(combined.data) * TicksPerSecond <= last_end * sample_rate
        /\ last_end * sample_rate < (Len(combined.data) + 1) * TicksPerSecond

has_audio(segment) ==
    segment.audio_path # None /\ file_of(files, segment.audio_path).exists

C9_Witness ==
    /\ pc = "combined"
    /\ Len(synthesized_segments) = 2
    /\ Len(combined.data) # round_samples(last_end)
    /\ has_audio(synthesized_segments[1]) /\ has_audio(synthesized_segments[2])
    /\ synthesized_segments[2].start < synthesized_segments[1].end

\* sample p (0-based) of the buffer lies in the segment's span [start, end)
in_region(p, segment) ==
    /\ segment.start * sample_rate <= p * TicksPerSecond
    /\ p * TicksPerSecond < segment.end * sample_rate

\* the clip of the segment as placed: at the composed rate
placed_clip(segment) ==
    LET f == file_of(files, segment.audio_path)
    IN  IF f.sr # sample_rate THEN resample(f.data, f.sr, sample_rate) ELSE f.data

\* sample p (0-based) is within the clip of the segment, placed at its start
covered_by(p, segment) ==
    /\ has_audio(segment)
    /\ (segment.start * sample_rate) \div TicksPerSecond <= p
    /\ p < (segment.start * sample_rate) \div TicksPerSecond + Len(placed_clip(segment))

Samples == 0..(Len(combined.data) - 1)

\* C10 as stated: the region of a segment without audio is all zero,
\* whatever clips the other segments carry.
C10_SilentRegion ==
    pc = "combined" =>
        \A k \in DOMAIN synthesized_segments :
            ~has_audio(synthesized_segments[k]) =>
                \A p \in Samples :
                    in_region(p, synthesized_segments[k]) => combined.data[p + 1] = 0

\* C10: in the region of a segment without audio, every sample that no other
\* segment's placed clip covers is zero.
C10_SilentWhereUncovered ==
    pc = "combined" =>
        \A k \in DOMAIN synthesized_segments :
            ~has_audio(synthesized_segments[k]) =>
                \A p \in Samples :
                    (/\ in_region(p, synthesized_segments[k])
                     /\ \A j \in DOMAIN synthesized_segments :
                            ~covered_by(p, synthesized_segments[j]))
                        => combined.data[p + 1] = 0

C10_Witness ==
    /\ pc = "combined"
    /\ \E k \in DOMAIN synthesized_segments :
        /\ ~has_audio(synthesized_segments[k])
        /\ \E p \in Samples : /\ in_region(p, synthesized_segments[k])
                              /\ combined.data[p + 1] # 0
        /\ \E p \in Samples : /\ in_region(p, synthesized_segments[k])
                              /\ combined.data[p + 1] = 0

\* the segment's clip, placed with its first sample at sample s (0-based),
\* reaches sample p
clip_at(p, segment, s) ==
    has_audio(segment) /\ s <= p /\ p < s + Len(placed_clip(segment))

\* With S giving the start sample of a start time: every sample of a present
\* clip that fits before the buffer end is in the buffer at its place,
\* unchanged, unless the clip of a later segment reaches that place; and
\* nothing is written where no clip reaches.
clips_copied(S(_)) ==
    /\ \A k \in DOMAIN synthesized_segments :
        has_audio(synthesized_segments[k]) =>
            \A idx \in DOMAIN placed_clip(synthesized_segments[k]) :
                LET p == S(synthesized_segments[k].start) + idx - 1
                IN  (/\ p < Len(combined.data)
                     /\ \A j \in DOMAIN synthesized_segments :
                            j > k => ~clip_at(p, synthesized_segments[j],
                                              S(synthesized_segments[j].start)))
                        => combined.data[p + 1] = placed_clip(synthesized_segments[k])[idx]
    /\ \A p \in Samples :
        combined.data[p + 1] # 0 =>
            \E k \in DOMAIN synthesized_segments :
                clip_at(p, synthesized_segments[k], S(synthesized_segments[k].start))

\* int(start * sample_rate), written out
start_sample_of(start) == (start * sample_rate) \div TicksPerSecond

common_samples(j, k) ==
    {p \in 0..(start_sample_of(last_end) - 1) :
        /\ clip_at(p, synthesized_segments[j], start_sample_of(synthesized_segments[j].start))
        /\ clip_at(p, synthesized_segments[k], start_sample_of(synthesized_segments[k].start))}

clips_overlap ==
    \E j, k \in DOMAIN synthesized_segments : j < k /\ common_samples(j, k) # {}

\* no present clip starts beyond the end of the buffer
starts_in_buffer ==
    \A k \in DOMAIN synthesized_segments :
        has_audio(synthesized_segments[k]) =>
            start_sample_of(synthesized_segments[k].start) <= start_sample_of(last_end)

\* C12: clips that reach a common sample range are not a reason to reject the
\* list (placing them does not raise), and after composition every sample of
\* the common range holds the value of the last segment in the list whose
\* clip reaches it.
C12_LastWriteWins ==
    /\ (pc = "combine" /\ clips_overlap /\ starts_in_buffer) =>
        ~place_from([p \in 1..start_sample_of(last_end) |-> 0],
                    synthesized_segments, 1, files).raised
    /\ pc = "combined" =>
        \A j, k \in DOMAIN synthesized_segments :
            j < k =>
                \A p \in common_samples(j, k) :
                    (\A m \in DOMAIN synthesized_segments :
                        m > k => ~clip_at(p, synthesized_segments[m],
                                          start_sample_of(synthesized_segments[m].start)))
                        => combined.data[p + 1] =
                               placed_clip(synthesized_segments[k])
                                   [p - start_sample_of(synthesized_segments[k].start) + 1]

C12_Witness ==
    /\ pc = "combined"
    /\ Len(synthesized_segments) = 2
    /\ synthesized_segments[1].start < synthesized_segments[2].start
    /\ \E p \in common_samples(1, 2) :
        /\ combined.data[p + 1] = placed_clip(synthesized_segments[2])
                                    [p - start_sample_of(synthesized_segments[2].start) + 1]
        /\ combined.data[p + 1] # placed_clip(synthesized_segments[1])
                                    [p - start_sample_of(synthesized_segments[1].start) + 1]
    /\ \E p \in Samples : clip_at(p, synthesized_segments[1],
                                  start_sample_of(synthesized_segments[1].start))
                          /\ p \notin common_samples(1, 2)

\* C13: combine_segments called with an empty list tells its caller so (it
\* returns None instead of the output path, without raising) and produces no
\* buffer and no output file.
C13_EmptySignalled ==
    (synthesized_segments = <<>> /\ pc # "combine") =>
        /\ pc = "combined_none"
        /\ exc = ""
        /\ ~combined.exists
        /\ combined.data = <<>>

C13_Witness == pc = "combined_none" /\ synthesized_segments = <<>> /\ ~combined.fresh

\* C14 as stated: a run in which recognition yields zero segments never ends
\* in Succeeded.
C14_ZeroSegmentsFail == pc = "Succeeded" => transcription # <<>>

\* C15 as stated: a failing stretch transform does not end the run in Failed.
C15_StretchFailureRecovered == ~(pc = "Failed" /\ exc = "stretch")

\* C16: a pass of the duration matching with synchronisation disabled, or
\* with |D_out - D_src| <= 1.0 s (boundary included), applies no stretch and
\* leaves the composed file as it is.
C16_NoOpWithinTolerance ==
    [][(/\ pc \in {"combined", "combined_none"}
        /\ \/ ~sync_duration
           \/ /\ original_duration' # Unknown
              /\ abs(original_duration' - duration_of(combined.data)) <= TicksPerSecond)
       => (combined' = combined /\ calls' = calls)]_vars

C16_Witness ==
    /\ pc = "export"
    /\ sync_duration
    /\ Len(progress) = 1
    /\ abs(original_duration - duration_of(combined.data)) = TicksPerSecond
    /\ ~combined.matched
    /\ calls = <<>>

\* C17: a pass on audio with |D_out - D_src| > 1.0 s that completes has called
\* time_stretch once, with rate = D_out / D_src, and leaves audio whose
\* duration is within 1.0 s of D_src.
C17_StretchToSource ==
    [][(/\ pc = "combined"
        /\ sync_duration
        /\ pc' = "export"
        /\ abs(original_duration' - duration_of(combined.data)) > TicksPerSecond)
       => (/\ Len(calls') = Len(calls) + 1
           /\ calls'[Len(calls')].model = "time_stretch"
           /\ calls'[Len(calls')].ok
           /\ calls'[Len(calls')].text[2] # 0
           /\ calls'[Len(calls')].text[1] * original_duration'
                  = calls'[Len(calls')].text[2] * duration_of(combined.data)
           /\ combined'.matched
           /\ abs(duration_of(combined'.data) - original_duration') <= TicksPerSecond)]_vars

C17_Witness ==
    /\ pc = "export"
    /\ combined.matched
    /\ Len(calls) = 1
    /\ calls[1].model = "time_stretch"
    /\ calls[1].text[1] > calls[1].text[2]
    /\ calls[1].text[1] * original_duration
           = calls[1].text[2] * duration_of(clip(0, MaxSamples))
    /\ duration_of(combined.data) # original_duration

\* C18: a second pass of the duration matching finds audio within 1.0 s of
\* D_src, also when the first pass stretched it, and changes nothing.
C18_Idempotent ==
    [][(pc = "combined" /\ sync_duration /\ progress # <<>>)
       => (/\ abs(original_duration - duration_of(combined.data)) <= TicksPerSecond
           /\ combined' = combined
           /\ calls' = calls)]_vars

C18_Witness ==
    /\ pc = "export"
    /\ Len(progress) = 2
    /\ combined.matched
    /\ Len(calls) = 1

\* the labels of the progress events emitted so far
labels == [k \in DOMAIN progress |-> progress[k].label]

emitted(label) == \E k \in DOMAIN progress : progress[k].label = label

\* the progress events of a complete run, in order
stage_labels ==
    <<"init", "extract", "recognize", "recognized", "translate", "translated",
      "synthesize", "combine">>
    \o (IF sync_duration THEN <<"sync">> ELSE <<>>)
    \o <<"export", "completed">>

is_prefix(a, b) == Len(a) <= Len(b) /\ \A k \in DOMAIN a : a[k] = b[k]

\* the last progress event emitted when the worker is at a position
entry_label(position) ==
    CASE position = "recognize" -> "extract"
      [] position = "save_transcription" -> "recognized"
      [] position \in {"translate_load", "translate_loop"} -> "translate"
      [] position \in {"synth_load", "synth_loop"} -> "synthesize"
      [] position \in {"combine", "combined", "combined_none"} -> "combine"
      [] position = "export" -> IF sync_duration THEN "sync" ELSE "combine"
      [] position = "Succeeded" -> "completed"

\* C19: within one run the stages are entered in the order Extracting,
\* Recognizing, Translating, Synthesizing, Composing, Reconciling (only with
\* synchronisation enabled), Exporting, terminal, none twice and none
\* skipped; a stage's progress event is emitted before its work starts.
C19_StageOrder ==
    /\ is_prefix(labels, stage_labels)
    /\ pc \in {"Idle", "run"} => progress = <<>>
    /\ pc \notin {"Idle", "run", "raise", "Failed"} =>
           /\ progress # <<>>
           /\ labels[Len(labels)] = entry_label(pc)
    /\ pc = "Succeeded" => labels = stage_labels
    /\ ("asr" \in loaded \/ transcription # <<>>) => emitted("recognize")
    /\ ("translation" \in loaded \/ translated_segments # <<>>
            \/ \E k \in DOMAIN calls : calls[k].model = "translation")
           => emitted("translate")
    /\ ("tts" \in loaded \/ synthesized_segments # <<>> \/ files # NoFiles
            \/ \E k \in DOMAIN calls : calls[k].model = "tts")
           => emitted("synthesize")
    /\ combined.fresh => emitted("combine")
    /\ (combined.matched \/ original_duration # Unknown
            \/ \E k \in DOMAIN calls : calls[k].model = "time_stretch")
           => emitted("sync")
    /\ finished # <<>> /\ finished[1].success => emitted("export")

C19_Witness ==
    /\ pc = "Succeeded"
    /\ sync_duration
    /\ labels = stage_labels
    /\ combined.fresh /\ combined.matched
    /\ \E k \in DOMAIN calls : calls[k].model = "translation"
    /\ \E k \in DOMAIN calls : calls[k].model = "tts"

\* C20: every started run reaches a terminal outcome, Succeeded or Failed,
\* with exactly one finished event, emitted on reaching it; after the outcome
\* the run makes no transition, emits no event and is not started again (only
\* the controls are enabled again).
C20_OneTerminalOutcome ==
    /\ (pc = "run") ~> (pc \in Terminal)
    /\ [](IF pc \in Terminal THEN Len(finished) = 1 ELSE finished = <<>>)
    /\ [](pc = "Succeeded" => finished[1].success)
    /\ [](pc = "Failed" => ~finished[1].success)
    /\ [][(pc \in Terminal) =>
            (UNCHANGED <<pc, mode, sync_duration, transcription, translated_segments,
                         synthesized_segments, i, loaded, unloaded, calls, files,
                         combined, progress, finished, exc, original_duration>>)]_vars

C20_Witness ==
    /\ pc = "Failed"
    /\ Len(finished) = 1
    /\ process_button
    /\ emitted("synthesize")

\* the exceptions of extraction, of recognition and of loading the translation
\* or the synthesis model, with the progress events emitted before each
stage_fatal ==
    [extract |-> 2, asr_load |-> 3, transcribe |-> 3, translation_load |-> 5,
     tts_load |-> 7]

\* C21: a failure of extraction, of recognition or of loading the translation
\* or synthesis model is not absorbed: the run goes to Failed with the error
\* description in its finished message, and nothing of a later stage is
\* executed (no progress event, no model call, no clip, no combined file).
C21_StageFatalFailsDirectly ==
    exc \in DOMAIN stage_fatal =>
        /\ pc \in {"raise", "Failed"}
        /\ pc = "Failed" =>
                finished = <<[success |-> FALSE, message |-> error_message(exc)]>>
        /\ labels = SubSeq(stage_labels, 1, stage_fatal[exc])
        /\ exc \in {"extract", "asr_load", "transcribe"} =>
                transcription = <<>> /\ loaded \subseteq {"asr"}
        /\ exc # "tts_load" => translated_segments = <<>> /\ calls = <<>>
        /\ exc = "tts_load" =>
                /\ Len(translated_segments) = Len(transcription)
                /\ \A k \in DOMAIN calls : calls[k].model = "translation"
                /\ "tts" \notin loaded
        /\ synthesized_segments = <<>>
        /\ files = NoFiles
        /\ ~combined.fresh /\ ~combined.matched
        /\ original_duration = Unknown
        /\ unloaded = {}

C21_Witness ==
    /\ pc = "Failed"
    /\ exc = "tts_load"
    /\ finished[1].message.str_e = "tts_load"
    /\ \E k \in DOMAIN translated_segments :
            failed("translation", k - 1)
            /\ translated_segments[k].translated_text = translated_segments[k].text

\* C22: the percentages of the progress events of a run lie between 0 and
\* 100 and never decrease, on every path, failing ones included.
C22_ProgressMonotone ==
    \A k \in DOMAIN progress :
        /\ progress[k].pct \in 0..100
        /\ k > 1 => progress[k - 1].pct <= progress[k].pct

C22_Witness ==
    /\ pc \in Terminal
    /\ Len(progress) >= 10
    /\ progress[1].pct = 5
    /\ progress[Len(progress)].pct >= 95

\* the progress events emitted after the event with the first label and
\* before the event with the second
between(first, second) ==
    {k \in DOMAIN progress :
        /\ \E a \in 1..(k - 1) : progress[a].label = first
        /\ \E b \in (k + 1)..Len(progress) : progress[b].label = second}

\* C24: during the translation and the synthesis stage one progress event is
\* emitted on the run's progress stream for each completed segment.
C24_EventPerSegment ==
    /\ emitted("translated") =>
            Cardinality(between("translate", "translated")) = Len(translated_segments)
    /\ emitted("combine") =>
            Cardinality(between("synthesize", "combine")) = Len(synthesized_segments)

\* C26: every run ends with a message that is either a success message naming
\* the output path or an error message naming both the stage that failed and
\* the cause.
C26_MessageNamesStageAndCause ==
    pc \in Terminal =>
        LET m == finished[Len(finished)]
        IN  IF m.success
            THEN "final_output" \in DOMAIN m.message
            ELSE {"stage", "str_e"} \subseteq DOMAIN m.message

\* C23: at most one run is active at any time: a new ProcessingThread is
\* started only when no earlier run is still on its way to its terminal
\* outcome, and never while a model loaded by an earlier run is still held.
C23_OneRunAtATime ==
    [][(pc' = "run" /\ pc # "run") =>
            (/\ process_button
             /\ pc \in {"Idle"} \cup Terminal
             /\ pc \in Terminal => finished # <<>>
             /\ loaded = {})]_vars

\* the calls of the translation model made in iteration j, in order
calls_of(j) == SelectSeq(calls, LAMBDA c : c.model = "translation" /\ c.i = j)

\* the texts of segments lo .. hi (0-based, inclusive), joined
joined(lo, hi) == join([k \in 1..(hi - lo + 1) |-> transcription[lo + k].text])

C28_CombineNeverRaises ==
    (pc = "combine" /\ synthesized_segments # <<>>) =>
        ~combine_segments(synthesized_segments, files, TRUE).raised

\* the calls of the synthesizer made for segment j (0-based)
tts_calls(j) == {k \in DOMAIN calls : calls[k].model = "tts" /\ calls[k].i = j}

\* C29: synthesize_segments invokes the synthesizer exactly once for each
\* segment whose translated_text is not blank, with that text, and never for
\* the others; a failed synthesis is not tried again.  A segment that fell
\* back to its source text in translation is synthesized from that text.
C29_OneSynthesisPerSegment ==
    pc = "synth_loop" =>
        \A j \in 0..(Len(translated_segments) - 1) :
            LET text == translated_segments[j + 1].translated_text
            IN  IF j < i /\ ~is_blank(text)
                THEN /\ Cardinality(tts_calls(j)) = 1
                     /\ \A k \in tts_calls(j) : calls[k].text = text
                ELSE tts_calls(j) = {}

C29_Witness ==
    /\ synthesis_returned
    /\ \E j \in 0..(Len(translated_segments) - 1) :
        /\ failed("translation", j)
        /\ translated_segments[j + 1].translated_text = transcription[j + 1].text
        /\ Cardinality(tts_calls(j)) = 1
        /\ \A k \in tts_calls(j) : ~calls[k].ok /\ calls[k].text = transcription[j + 1].text
    /\ \E j \in 0..(Len(translated_segments) - 1) :
        /\ is_blank(translated_segments[j + 1].translated_text)
        /\ tts_calls(j) = {}

====
